---- MODULE Spec2Model ----
(***************************************************************************)
(* A model of the pacti C++ prototype: the generic set algebra mathset<T>, *)
(* design variables, the abstract Term / TermSet, and IoContract::compose. *)
(*                                                                         *)
(* Three specifications share the module:                                  *)
(*   SpecSet   mathset<int> as exercised by main() (insert, setint,        *)
(*             setunion, setdiff);                                         *)
(*   SpecTerm  TermSet = mathset<Term*> (insert, setunion,                 *)
(*             getTermsWithVars);                                          *)
(*   Spec      IoContract construction and IoContract::compose.            *)
(***************************************************************************)
EXTENDS Integers, FiniteSets, Sequences, TLC

VARIABLES
    setA, setB, setR, lastop,                  \* mathset<int>: test, test2, last result
    ts, other, ret, tstatus,                   \* TermSet: receiver, another set, result
    thisC, otherC, status, locals, calls, result   \* IoContract::compose

setvars  == <<setA, setB, setR, lastop>>
termvars == <<ts, other, ret, tstatus>>
compvars == <<thisC, otherC, status, locals, calls, result>>
vars     == <<setA, setB, setR, lastop, ts, other, ret, tstatus,
              thisC, otherC, status, locals, calls, result>>

(***************************************************************************)
(* Bounds of the model.                                                    *)
(***************************************************************************)
MaxInt    == 5      \* the integers put into a mathset<int> are 1..MaxInt
NumCopies == 2      \* distinct Term objects allocated per term content
MaxTerms  == 1      \* terms per TermSet handed to / returned inside compose

(***************************************************************************)
(* mathset<T>: std::unordered_set<T> plus the binary operations.  A value  *)
(* of mathset<T> is the set of its elements: the container keeps one       *)
(* element per class of T's equality, and iteration order is unspecified.  *)
(***************************************************************************)
\* unordered_set::insert: an element equal to one already held is absorbed
insert(S, x) == IF x \in S THEN S ELSE S \cup {x}

\* mathset<T>::contains: find(*element) != end()
contains(S, x) == x \in S

\* unordered_set::empty
empty(S) == Cardinality(S) = 0

\* mathset<T>::setint: iterate the smaller set (other, when strictly
\* smaller), probe the larger, insert the hits in a new set
setint(this, oth) ==
    LET swap  == Cardinality(oth) < Cardinality(this)
        basea == IF swap THEN oth ELSE this
        baseb == IF swap THEN this ELSE oth
    IN  {x \in basea : contains(baseb, x)}

\* mathset<T>::setunion: a new set, every element of this then of other
setunion(this, oth) ==
    LET first == {x \in this : TRUE}
    IN  first \cup {x \in oth : TRUE}

\* a slip in the loop condition of setdiff: the probe is not negated
setdiff_keeps_common(this, oth) == {x \in this : contains(oth, x)}

\* mathset<T>::setdiff: a new set, the elements of this that other lacks
setdiff(this, oth) == {x \in this : ~contains(oth, x)}

\* mathset<T>::isdisjoint: the intersection is empty
isdisjoint(this, oth) == empty(setint(this, oth))

(***************************************************************************)
(* SpecSet: main() of contracttool.cpp.  Two mathset<int> are built by     *)
(* insertion, then the three binary operations are applied to them.        *)
(***************************************************************************)
Ints == 1..MaxInt

NoRet == [ptr |-> "none", arg |-> {}, pre |-> {}]

TermIdle == /\ ts = {} /\ other = {} /\ ret = NoRet /\ tstatus = "off"
CompIdle == /\ thisC = <<>> /\ otherC = <<>> /\ status = "off"
            /\ locals = <<>> /\ calls = <<>> /\ result = <<>>

InitSet ==
    /\ setA = {} /\ setB = {} /\ setR = {} /\ lastop = "none"
    /\ TermIdle /\ CompIdle

\* test->insert(x)
InsertA(x) ==
    /\ setA' = insert(setA, x)
    /\ setR' = {} /\ lastop' = "none"
    /\ UNCHANGED <<setB, termvars, compvars>>

\* test2 is built from an initializer list, one insert per listed value
InsertB(x) ==
    /\ setB' = insert(setB, x)
    /\ setR' = {} /\ lastop' = "none"
    /\ UNCHANGED <<setA, termvars, compvars>>

\* test3 = test->setint(test2)
DoSetint ==
    /\ setR' = setint(setA, setB) /\ lastop' = "setint"
    /\ UNCHANGED <<setA, setB, termvars, compvars>>

\* test4 = test->setunion(test2)
DoSetunion ==
    /\ setR' = setunion(setA, setB) /\ lastop' = "setunion"
    /\ UNCHANGED <<setA, setB, termvars, compvars>>

\* test5 = test->setdiff(test2)
DoSetdiff ==
    /\ setR' = setdiff(setA, setB) /\ lastop' = "setdiff"
    /\ UNCHANGED <<setA, setB, termvars, compvars>>

NextSet ==
    \/ \E x \in Ints : InsertA(x)
    \/ \E x \in Ints : InsertB(x)
    \/ DoSetint
    \/ DoSetunion
    \/ DoSetdiff

SpecSet == InitSet /\ [][NextSet]_vars

\* C6: setint, setunion and setdiff return A \cap B, A \cup B and A \ B in
\* a new set and leave both operands as they were; for A = {1,2,3,5} and
\* B = {2,3,4,5} the results are {2,3,5}, {1,2,3,4,5} and {1}.
SetOpsCorrect ==
    [][ /\ lastop' # "none" => setA' = setA /\ setB' = setB
        /\ lastop' = "setint"   => setR' = setA \cap setB
        /\ lastop' = "setunion" => setR' = setA \cup setB
        /\ lastop' = "setdiff"  => setR' = setA \ setB
        /\ (setA = {1,2,3,5} /\ setB = {2,3,4,5}) =>
              /\ lastop' = "setint"   => setR' = {2,3,5}
              /\ lastop' = "setunion" => setR' = {1,2,3,4,5}
              /\ lastop' = "setdiff"  => setR' = {1} ]_vars

SetOpsWitness ==
    /\ setA = {1,2,3,5} /\ setB = {2,3,4,5}
    /\ lastop = "setdiff" /\ setR = {1}

(***************************************************************************)
(* Design variables and Terms.  A designvar is its name.  Term is an       *)
(* abstract class; a Term object is modelled by its content (the variables *)
(* getvars() reports, which also stands for the canonical string hashstr() *)
(* returns) and by which allocation of that content it is.  Two objects    *)
(* with the same content are equal Terms at different addresses.           *)
(***************************************************************************)
Vars == {"a", "b"}

VarSets == SUBSET Vars

TermContents == VarSets \ {{}}

TermObjs == [vars : TermContents, copy : 1..NumCopies]

\* Term::getvars
getvars(t) == t.vars

\* Term::hashstr, the string std::hash<Term> hashes
hashstr(t) == t.vars

\* Term::operator==
TermEq(t, u) == hashstr(t) = hashstr(u)

(***************************************************************************)
(* TermSet: public mathset<Term*>.  The element type is the pointer, so    *)
(* the set operations above apply to Term objects by address.              *)
(***************************************************************************)
RECURSIVE getVarsLoop(_, _)
getVarsLoop(rest, acc) ==
    IF rest = {} THEN acc
    ELSE LET t == CHOOSE x \in rest : TRUE
         IN  getVarsLoop(rest \ {t}, setunion(acc, getvars(t)))

\* TermSet::getVars: result = result->setunion((*itr)->getvars()) per term
getVars(S) == getVarsLoop(S, {})

\* TermSet::sharedVariables
sharedVariables(S, T) == setint(getVars(S), getVars(T))

\* the loop of TermSet::getTermsWithVars: the terms it inserts into result
QualifyingTerms(S, V) == {t \in S : ~isdisjoint(getvars(t), V)}

(***************************************************************************)
(* SpecTerm: a TermSet `ts` and a second one `other`, filled by insertion  *)
(* and union, then one call of ts->getTermsWithVars(V).                    *)
(***************************************************************************)
InitTerm ==
    /\ ts = {} /\ other = {} /\ ret = NoRet /\ tstatus = "ok"
    /\ setA = {} /\ setB = {} /\ setR = {} /\ lastop = "none"
    /\ CompIdle

\* ts->insert(t) with t a Term*
TsInsert(t) ==
    /\ tstatus = "ok"
    /\ ts' = insert(ts, t)
    /\ UNCHANGED <<other, ret, tstatus, setvars, compvars>>

OtherInsert(t) ==
    /\ tstatus = "ok"
    /\ other' = insert(other, t)
    /\ UNCHANGED <<ts, ret, tstatus, setvars, compvars>>

\* ts = ts->setunion(other)
TsUnion ==
    /\ tstatus = "ok"
    /\ ts' = setunion(ts, other)
    /\ UNCHANGED <<other, ret, tstatus, setvars, compvars>>

\* TermSet::getTermsWithVars.  `TermSet* result;` is never initialised and
\* is dereferenced at once by result->clear(): undefined behaviour.  The
\* pointer holds whatever the stack slot held: an address that faults, or
\* the address of a live TermSet, which is then cleared, filled and
\* returned.  No outcome allocates a new set.
GetTermsWithVars(V) ==
    /\ tstatus = "ok"
    /\ \/ /\ tstatus' = "crashed"
          /\ ret' = [ptr |-> "none", arg |-> V, pre |-> ts]
          /\ UNCHANGED <<ts, other>>
       \/ \* result == this: clear() empties the receiver before the loop
          /\ tstatus' = "returned"
          /\ ts' = QualifyingTerms({}, V)
          /\ ret' = [ptr |-> "this", arg |-> V, pre |-> ts]
          /\ UNCHANGED other
       \/ \* result == other
          /\ tstatus' = "returned"
          /\ other' = QualifyingTerms(ts, V)
          /\ ret' = [ptr |-> "other", arg |-> V, pre |-> ts]
          /\ UNCHANGED ts
    /\ UNCHANGED <<setvars, compvars>>

NextTerm ==
    \/ \E t \in TermObjs : TsInsert(t)
    \/ \E t \in TermObjs : OtherInsert(t)
    \/ TsUnion
    \/ \E V \in VarSets : GetTermsWithVars(V)

SpecTerm == InitTerm /\ [][NextTerm]_vars

\* C7: a TermSet never holds two members that are equal as Terms (equal
\* operator== / equal hashstr), whatever was inserted or united.
NoDuplicateTerms ==
    \A S \in {ts, other} : \A t \in S : \A u \in S : TermEq(t, u) => t = u

\* the set the returned pointer designates
Returned == IF ret.ptr = "this" THEN ts ELSE IF ret.ptr = "other" THEN other ELSE {}

\* C8: getTermsWithVars(V) returns a fresh set holding exactly the terms of
\* S whose variables meet V, and S is unchanged.
TermsWithExact ==
    tstatus \in {"returned", "crashed"} =>
        /\ tstatus = "returned"
        /\ ret.ptr \notin {"this", "other"}
        /\ Returned = {t \in ret.pre : getvars(t) \cap ret.arg # {}}
        /\ ts = ret.pre

(***************************************************************************)
(* IoContract.  The constructor stores its four arguments and checks       *)
(* nothing.  Contracts are built over Term objects that each mention one   *)
(* variable, with at most MaxTerms terms per TermSet.                      *)
(***************************************************************************)
ContractTerms == {t \in TermObjs : t.copy = 1 /\ Cardinality(t.vars) = 1}

ContractTermSets == {S \in SUBSET ContractTerms : Cardinality(S) <= MaxTerms}

\* IoContract::IoContract
IoContract(in, out, assmpt, gtees) ==
    [inputs |-> in, outputs |-> out, assumptions |-> assmpt, guarantees |-> gtees]

\* TermSet::simplifyWithTerms is pure virtual and no class of the
\* repository implements it: the values a call may return are any TermSet.
simplifyWithTerms(recv, ctx, elim) == ContractTermSets

\* compose: internalvars
InternalVars(A, B) ==
    setunion(setint(A.outputs, B.inputs), setint(A.inputs, B.outputs))

\* a slip in outvars: the internal variables are not taken out
OutVars_keeps_internal(A, B, internalvars) == setunion(A.outputs, B.outputs)

\* compose: outvars
OutVars(A, B, internalvars) ==
    setdiff(setunion(A.outputs, B.outputs), internalvars)

\* compose: invars
InVars(A, B, internalvars, outvars) ==
    setdiff(setdiff(setunion(A.inputs, B.inputs), internalvars), outvars)

\* compose: varsNotInAssumptions
VarsNotInAssumptions(outvars, internalvars) == setunion(outvars, internalvars)

\* a slip in the if / else-if chain: the second test is made first
AssumptionBranch_b_first(A, B, hidden) ==
    IF ~empty(setint(sharedVariables(B.assumptions, A.guarantees), hidden))
    THEN "b"
    ELSE IF ~empty(setint(sharedVariables(A.assumptions, B.guarantees), hidden))
         THEN "a"
         ELSE "none"

\* compose: which arm of the if / else-if computes assumptions_comp
AssumptionBranch(A, B, hidden) ==
    IF ~empty(setint(sharedVariables(A.assumptions, B.guarantees), hidden))
    THEN "a"
    ELSE IF ~empty(setint(sharedVariables(B.assumptions, A.guarantees), hidden))
         THEN "b"
         ELSE "none"

\* compose: the simplifyWithTerms call of the arm taken, and the set its
\* result is united with
AssumptionCall(branch, A, B, hidden) ==
    IF branch = "a"
    THEN [site |-> "a", recv |-> A.assumptions, ctx |-> B.guarantees,
          elim |-> hidden, rest |-> B.assumptions]
    ELSE [site |-> "b", recv |-> B.assumptions, ctx |-> A.guarantees,
          elim |-> hidden, rest |-> A.assumptions]

\* a slip in the last call: the output variables are eliminated instead
GuaranteeCall_elim_outvars(A, B, assumptions_comp, internalvars, outvars) ==
    [site |-> "g", recv |-> setunion(A.guarantees, B.guarantees),
     ctx |-> assumptions_comp, elim |-> outvars, rest |-> {}]

\* compose: the simplifyWithTerms call that computes guarantees_comp
GuaranteeCall(A, B, assumptions_comp, internalvars, outvars) ==
    [site |-> "g", recv |-> setunion(A.guarantees, B.guarantees),
     ctx |-> assumptions_comp, elim |-> internalvars, rest |-> {}]

Done(c, res) == [site |-> c.site, recv |-> c.recv, ctx |-> c.ctx,
                 elim |-> c.elim, rest |-> c.rest, res |-> res]

\* compose after the assert
ComposeBody(A, B) ==
    LET internalvars == InternalVars(A, B)
        outvars      == OutVars(A, B, internalvars)
        invars       == InVars(A, B, internalvars, outvars)
        hidden       == VarsNotInAssumptions(outvars, internalvars)
        branch       == AssumptionBranch(A, B, hidden)
        Finish(pre, assumptions_comp) ==
            LET g == GuaranteeCall(A, B, assumptions_comp, internalvars, outvars)
            IN  \E guarantees_comp \in simplifyWithTerms(g.recv, g.ctx, g.elim) :
                  /\ calls' = pre \o <<Done(g, guarantees_comp)>>
                  /\ result' = <<IoContract(invars, outvars,
                                            assumptions_comp, guarantees_comp)>>
                  /\ status' = "returned"
    IN  /\ locals' = <<[internal |-> internalvars, out |-> outvars,
                        in |-> invars, hidden |-> hidden, branch |-> branch]>>
        /\ IF branch \in {"a", "b"}
           THEN LET c == AssumptionCall(branch, A, B, hidden)
                IN  \E r \in simplifyWithTerms(c.recv, c.ctx, c.elim) :
                       Finish(<<Done(c, r)>>, setunion(r, c.rest))
           ELSE \* assumptions_comp is read uninitialised: the pointer
                \* is a stale address, which faults when simplifyWithTerms
                \* follows it or happens to designate some TermSet
                \/ /\ status' = "crashed"
                   /\ calls' = <<>> /\ result' = <<>>
                \/ \E garbage \in ContractTermSets : Finish(<<>>, garbage)

(***************************************************************************)
(* Spec: two contracts are constructed, then this->compose(other) runs.    *)
(***************************************************************************)
Init ==
    /\ thisC = <<>> /\ otherC = <<>> /\ status = "idle"
    /\ locals = <<>> /\ calls = <<>> /\ result = <<>>
    /\ setA = {} /\ setB = {} /\ setR = {} /\ lastop = "none"
    /\ TermIdle

\* new IoContract(in, out, assmpt, gtees), later the receiver of compose
NewThis(in, out, assmpt, gtees) ==
    /\ status = "idle" /\ thisC = <<>>
    /\ thisC' = <<IoContract(in, out, assmpt, gtees)>>
    /\ UNCHANGED <<otherC, status, locals, calls, result, setvars, termvars>>

\* new IoContract(in, out, assmpt, gtees), later the argument of compose
NewOther(in, out, assmpt, gtees) ==
    /\ status = "idle" /\ otherC = <<>>
    /\ otherC' = <<IoContract(in, out, assmpt, gtees)>>
    /\ UNCHANGED <<thisC, status, locals, calls, result, setvars, termvars>>

\* IoContract::compose.  The assert aborts the process when the outputs
\* meet; a build with NDEBUG compiles it out and runs the body anyway.
Compose ==
    /\ status = "idle" /\ thisC # <<>> /\ otherC # <<>>
    /\ LET A == thisC[1]
           B == otherC[1]
       IN  IF isdisjoint(A.outputs, B.outputs)
           THEN ComposeBody(A, B)
           ELSE \/ /\ status' = "aborted"
                   /\ UNCHANGED <<locals, calls, result>>
                \/ ComposeBody(A, B)
    /\ UNCHANGED <<thisC, otherC, setvars, termvars>>

Next ==
    \/ \E in \in VarSets, out \in VarSets :
         \E assmpt \in ContractTermSets, gtees \in ContractTermSets :
            NewThis(in, out, assmpt, gtees)
    \/ \E in \in VarSets, out \in VarSets :
         \E assmpt \in ContractTermSets, gtees \in ContractTermSets :
            NewOther(in, out, assmpt, gtees)
    \/ Compose

Spec == Init /\ [][Next]_vars

(***************************************************************************)
(* The properties of compose, stated with the mathematical set operations  *)
(* on the two contracts compose was called with.                           *)
(***************************************************************************)
Called == status \in {"returned", "aborted", "crashed"}

Ai == thisC[1].inputs
Ao == thisC[1].outputs
Aa == thisC[1].assumptions
Ag == thisC[1].guarantees
Bi == otherC[1].inputs
Bo == otherC[1].outputs
Ba == otherC[1].assumptions
Bg == otherC[1].guarantees

VarsOf(S) == UNION {t.vars : t \in S}

Internal == (Ao \cap Bi) \cup (Ai \cap Bo)
Outvars  == (Ao \cup Bo) \ Internal
Invars   == ((Ai \cup Bi) \ Internal) \ Outvars
Hidden   == Outvars \cup Internal

DependsA == VarsOf(Aa) \cap VarsOf(Bg) \cap Hidden # {}
DependsB == VarsOf(Ba) \cap VarsOf(Ag) \cap Hidden # {}

\* the invariants a contract is documented to satisfy at construction
WellFormed(c) ==
    /\ c.inputs \cap c.outputs = {}
    /\ VarsOf(c.assumptions) \subseteq c.inputs \cup c.outputs
    /\ VarsOf(c.guarantees) \subseteq c.inputs \cup c.outputs

CallsAt(site) == {i \in DOMAIN calls : calls[i].site = site}

\* every simplifyWithTerms call made returned a set free of its elim variables
SimplifyEliminated ==
    \A i \in DOMAIN calls : VarsOf(calls[i].res) \cap calls[i].elim = {}

\* C1: the three variable sets compose computes are internal =
\* (Ao \cap Bi) \cup (Ai \cap Bo), outvars = (Ao \cup Bo) \ internal and
\* invars = (Ai \cup Bi) \ internal \ outvars; they are pairwise disjoint
\* and their union is Ai \cup Ao \cup Bi \cup Bo.
PartitionIsPartition ==
    locals # <<>> =>
        LET l == locals[1]
        IN  /\ l.internal = Internal
            /\ l.out = Outvars
            /\ l.in = Invars
            /\ l.internal \cap l.out = {}
            /\ l.internal \cap l.in = {}
            /\ l.out \cap l.in = {}
            /\ l.internal \cup l.out \cup l.in = Ai \cup Ao \cup Bi \cup Bo
            /\ result # <<>> =>
                  result[1].inputs = l.in /\ result[1].outputs = l.out

\* a wire between the two contracts, and an output that is also an input,
\* which "\ outvars" takes out of invars
PartitionWitness ==
    /\ status = "returned" /\ Len(calls) = 2
    /\ locals[1].internal # {}
    /\ locals[1].out \cap (Ai \cup Bi) # {}

\* C2: compose called with A.outputs \cap B.outputs # {} hands its caller
\* an InvariantViolation error: no composite contract is produced and
\* nothing else changes.
SharedOutputRejected ==
    (Called /\ Ao \cap Bo # {}) =>
        /\ status = "InvariantViolation"
        /\ result = <<>>
        /\ locals = <<>> /\ calls = <<>>

\* C3: when compose succeeds on contracts that satisfy the construction
\* invariants and have disjoint outputs, and the
\* simplifyWithTerms call that computed the assumptions returned a set free
\* of its elim variables, no hidden variable appears in the composite
\* assumptions.
AssumptionsHideVars ==
    ( /\ status = "returned"
      /\ WellFormed(thisC[1]) /\ WellFormed(otherC[1])
      /\ Ao \cap Bo = {}
      /\ CallsAt("a") \cup CallsAt("b") # {}
      /\ SimplifyEliminated ) =>
        VarsOf(result[1].assumptions) \cap (Outvars \cup Internal) = {}

\* C4: when neither direction depends on the other's guarantees over the
\* hidden variables, the composite assumptions are exactly Aa \cup Ba and
\* the guarantees are computed with them as context.
FallbackIsUnion ==
    (Called /\ Ao \cap Bo = {} /\ ~DependsA /\ ~DependsB) =>
        /\ status = "returned"
        /\ result[1].assumptions = Aa \cup Ba
        /\ \A i \in CallsAt("g") : calls[i].ctx = Aa \cup Ba

\* C5: when compose succeeds and every simplifyWithTerms call returned a
\* set free of its elim variables, no internal variable appears in the
\* composite guarantees, which are
\* (Ag \cup Bg).simplifyWith(assumptions_comp, internal).
GuaranteesHideInternal ==
    (status = "returned" /\ SimplifyEliminated) =>
        /\ VarsOf(result[1].guarantees) \cap Internal = {}
        /\ \E i \in CallsAt("g") :
              /\ i = Len(calls)
              /\ calls[i].recv = Ag \cup Bg
              /\ calls[i].ctx = result[1].assumptions
              /\ calls[i].elim = Internal
              /\ calls[i].res = result[1].guarantees

GuaranteesWitness ==
    /\ status = "returned" /\ SimplifyEliminated /\ Len(calls) = 2
    /\ Internal # {}
    /\ VarsOf(Ag \cup Bg) \cap Internal # {}
    /\ result[1].guarantees # {}

\* C9: no IoContract exists whose inputs and outputs share a variable,
\* whether it was built directly or returned by compose.
ContractsDisjoint ==
    \A c \in {thisC, otherC, result} :
        c # <<>> => c[1].inputs \cap c[1].outputs = {}

\* C10: at most one direction of assumption simplification runs and ties go
\* to the first: when sharedVariables(Aa, Bg) meets the hidden variables,
\* assumptions_comp = Aa.simplifyWith(Bg, hidden) \cup Ba whether or not
\* sharedVariables(Ba, Ag) meets them too; Ba.simplifyWith(Ag, hidden) \cup Aa
\* is used only when the first test fails and the second holds.
FirstBranchWins ==
    status = "returned" =>
        /\ Cardinality(CallsAt("a") \cup CallsAt("b")) <= 1
        /\ DependsA =>
              /\ CallsAt("a") = {1} /\ CallsAt("b") = {}
              /\ calls[1].recv = Aa /\ calls[1].ctx = Bg
              /\ calls[1].elim = Hidden
              /\ result[1].assumptions = calls[1].res \cup Ba
        /\ CallsAt("b") # {} <=> (~DependsA /\ DependsB)
        /\ (~DependsA /\ DependsB) =>
              /\ CallsAt("b") = {1}
              /\ calls[1].recv = Ba /\ calls[1].ctx = Ag
              /\ calls[1].elim = Hidden
              /\ result[1].assumptions = calls[1].res \cup Aa

\* a tie: both directions depend on hidden variables, and the two
\* directions would give different assumptions
FirstBranchWitness ==
    /\ status = "returned"
    /\ DependsA /\ DependsB
    /\ Aa # Ba
    /\ calls[1].res # Aa

====
